---- MODULE Spec2Model ----
(***************************************************************************)
(* Model of src/Elevator.py: a single elevator car (class Elevator) driven *)
(* tick by tick by ElevatorController.run(), which releases timed pickup   *)
(* requests to the car and calls Elevator.move() once per tick.            *)
(***************************************************************************)
EXTENDS Integers, Sequences, FiniteSets, TLC

\* ------------------------------------------------------------------ bounds
\* Floor count of the bounded runs.
Floors == 2
\* Largest release time of a request of the bounded runs.
MaxTime == 1
\* Largest number of requests of the bounded runs.
MaxReqs == 3
\* Largest number of requests of the runs on unvalidated requests.
MaxRawReqs == 2

\* ------------------------------------------------------- program constants
\* class Direction(Enum)
DOWN == -1
IDLE == 0
UP == 1

\* Elevator.__init__(self, floors, starting_floor=1)
DefaultStartingFloor == 1

\* The module-level scenario: floors = 10 and the four requests.
RefFloors == 10
RefRequests ==
    << [time |-> 1, floor |-> 5, direction |-> DOWN, destination |-> 2],
       [time |-> 2, floor |-> 8, direction |-> UP,   destination |-> 10],
       [time |-> 3, floor |-> 4, direction |-> UP,   destination |-> 9],
       [time |-> 7, floor |-> 5, direction |-> DOWN, destination |-> 1] >>

\* ------------------------------------------------------------------- state
VARIABLES
    input,                 \* the requests list given to ElevatorController()
    floors,                \* Elevator.floors
    direction,             \* Elevator.direction
    current_floor,         \* Elevator.current_floor
    destination_requests,  \* Elevator.destination_requests (set of floors)
    pickup_requests,       \* Elevator.pickup_requests (list of requests)
    requests,              \* ElevatorController.requests (sorted, popped from the end)
    time,                  \* ElevatorController.time
    pc,                    \* position of run(): "loop", "move" or "done"
    log,                   \* the lines logged by the last move(), in emission order
    served,                \* every pickup and dropoff line logged so far
    handed,                \* every request_car() call so far: request and clock
    tick                   \* the car before and after each step of the last move()

vars == << input, floors, direction, current_floor, destination_requests,
           pickup_requests, requests, time, pc, log, served, handed, tick >>

\* A request object is identified by its position in the input list: two
\* requests with equal fields are still two objects.
Req(id) == input[id]

\* PickupRequest values of the bounded runs.
PickupRequest ==
    [time : 0..MaxTime, floor : 1..Floors, direction : {DOWN, UP},
     destination : 1..Floors]

\* Requests as the constructor takes them: no field is checked, so a floor may
\* lie one off either end of the building and the direction may be IDLE.
RawRequest ==
    [time : 0..MaxTime, floor : 0..(Floors + 1), direction : {DOWN, IDLE, UP},
     destination : 0..(Floors + 1)]

Max(S) == CHOOSE x \in S : \A y \in S : y <= x
Min(S) == CHOOSE x \in S : \A y \in S : x <= y

\* ---------------------------------------------------------------- Elevator
\* A pickup or dropoff line (logging.debug), as opposed to a state line.
IsService(ev) == ev.kind # "State"

\* The lines of log b after those of its prefix a.
Lines(a, b) == SubSeq(b, Len(a) + 1, Len(b))

\* The requests of the pickup lines of l.
Boarded(l) == {l[i].req : i \in {j \in DOMAIN l : l[j].kind = "Boarded"}}

\* The car as a record, so that the methods compose inside one move().
Car == [direction |-> direction, current_floor |-> current_floor,
        destination_requests |-> destination_requests,
        pickup_requests |-> pickup_requests, log |-> log]

\* The car's fields without the log.
Snap(e) == [direction |-> e.direction, current_floor |-> e.current_floor,
            destination_requests |-> e.destination_requests,
            pickup_requests |-> e.pickup_requests]

\* A logged line, with the car's fields at the moment of the logging call.
Event(kind, t, e, id) ==
    [kind |-> kind, time |-> t, floor |-> e.current_floor,
     direction |-> e.direction, req |-> id,
     dests |-> e.destination_requests, queue |-> e.pickup_requests]

has_pending_requests(e) ==
    e.destination_requests # {} \/ Len(e.pickup_requests) > 0

\* Mutant: request_car refuses a request with a floor outside the building or
\* with no direction.
request_car_validating(pq, id) ==
    IF /\ Req(id).floor \in 1..floors
       /\ Req(id).destination \in 1..floors
       /\ Req(id).direction # IDLE
    THEN Append(pq, id)
    ELSE pq

request_car(pq, id) == Append(pq, id)

\* Mutant: the state line carries the clock after its increment.
report_state_late(e, t) == [e EXCEPT !.log = Append(@, Event("State", t + 1, e, 0))]

report_state(e, t) == [e EXCEPT !.log = Append(@, Event("State", t, e, 0))]

report_pickup(e, t, id) == [e EXCEPT !.log = Append(@, Event("Boarded", t, e, id))]

report_dropoff(e, t) == [e EXCEPT !.log = Append(@, Event("Discharged", t, e, 0))]

has_pickup_requests(e) == Len(e.pickup_requests) > 0

\* Mutant: the floor test is missing, the head is picked up wherever the car is.
has_pickup_request_anywhere(e) == has_pickup_requests(e)

has_pickup_request_at_current_floor(e) ==
    has_pickup_requests(e) /\ Req(e.pickup_requests[1]).floor = e.current_floor

has_dropoff_request_at_current_floor(e) ==
    e.current_floor \in e.destination_requests

\* Mutant: boards the head but leaves self.direction as it was.
pickup_keeps_direction(e, t) ==
    IF has_pickup_request_at_current_floor(e)
    THEN LET head == e.pickup_requests[1]
             e1 == report_pickup(e, t, head)
         IN [e1 EXCEPT !.destination_requests = @ \cup {Req(head).destination},
                       !.pickup_requests = Tail(@)]
    ELSE e

\* Mutant: the pickup is reported after the car's fields are updated.
pickup_reports_after(e, t) ==
    IF has_pickup_request_at_current_floor(e)
    THEN LET head == e.pickup_requests[1]
             e1 == [e EXCEPT !.direction = Req(head).direction,
                             !.destination_requests = @ \cup {Req(head).destination},
                             !.pickup_requests = Tail(@)]
         IN report_pickup(e1, t, head)
    ELSE e

pickup_at_current_floor(e, t) ==
    IF has_pickup_request_at_current_floor(e)
    THEN LET head == e.pickup_requests[1]
             e1 == report_pickup(e, t, head)
         IN [e1 EXCEPT !.direction = Req(head).direction,
                       !.destination_requests = @ \cup {Req(head).destination},
                       !.pickup_requests = Tail(@)]
    ELSE e

\* Mutant: the dropoff is reported and the floor stays in the set.
drop_off_keeps_floor(e, t) ==
    IF has_dropoff_request_at_current_floor(e)
    THEN report_dropoff(e, t)
    ELSE e

drop_off_at_current_floor(e, t) ==
    IF has_dropoff_request_at_current_floor(e)
    THEN LET e1 == report_dropoff(e, t)
         IN [e1 EXCEPT !.destination_requests = @ \ {e.current_floor}]
    ELSE e

\* list.pop(i) for every i of sorted(pickups_to_discard, reverse=True): the
\* indices are distinct and popped from the highest down, so each pop leaves
\* the lower positions where they were.  Indices are 0-based as in the code.
RECURSIVE pop_all(_, _)
pop_all(q, discard) ==
    IF discard = {} THEN q
    ELSE LET i == Max(discard)
         IN pop_all(SubSeq(q, 1, i) \o SubSeq(q, i + 2, Len(q)), discard \ {i})

\* Mutant: the loop without the comparison with the head of the queue.
RECURSIVE parallel_loop_no_head(_, _, _, _)
parallel_loop_no_head(e, t, discard, i) ==
    IF i >= Len(e.pickup_requests) THEN e
    ELSE LET request == e.pickup_requests[i + 1]
             match == /\ Req(request).floor = e.current_floor
                      /\ Req(request).direction = e.direction
             discard1 == IF match THEN discard \cup {i} ELSE discard
             e1 == IF match
                   THEN [report_pickup(e, t, request) EXCEPT
                            !.destination_requests = @ \cup {Req(request).destination}]
                   ELSE e
             e2 == [e1 EXCEPT !.pickup_requests = pop_all(@, discard1)]
         IN parallel_loop_no_head(e2, t, discard1, i + 1)

\* The for loop of handle_parallel_requests from 0-based position i on.  The
\* loop iterates over the list it pops from: the iterator stops when i reaches
\* the list's current length, and the pops are inside the loop body, with
\* pickups_to_discard never cleared.
RECURSIVE parallel_loop(_, _, _, _)
parallel_loop(e, t, discard, i) ==
    IF i >= Len(e.pickup_requests) THEN e
    ELSE LET request == e.pickup_requests[i + 1]
             match == /\ Req(request).floor = e.current_floor
                      /\ has_pickup_requests(e)
                      /\ Req(e.pickup_requests[1]).direction = Req(request).direction
                      /\ Req(request).direction = e.direction
             discard1 == IF match THEN discard \cup {i} ELSE discard
             e1 == IF match
                   THEN [report_pickup(e, t, request) EXCEPT
                            !.destination_requests = @ \cup {Req(request).destination}]
                   ELSE e
             e2 == [e1 EXCEPT !.pickup_requests = pop_all(@, discard1)]
         IN parallel_loop(e2, t, discard1, i + 1)

handle_parallel_requests(e, t) ==
    IF has_pickup_requests(e) THEN parallel_loop(e, t, {}, 0) ELSE e

\* Mutant: the idle car steps towards its work without taking a direction.
decide_idle_keeps_idle(e) ==
    IF has_pickup_requests(e)
    THEN IF Req(e.pickup_requests[1]).floor > e.current_floor
         THEN [e EXCEPT !.current_floor = @ + 1]
         ELSE IF Req(e.pickup_requests[1]).floor < e.current_floor
              THEN [e EXCEPT !.current_floor = @ - 1]
              ELSE e
    ELSE IF e.destination_requests # {}
         THEN IF Max(e.destination_requests) > e.current_floor
              THEN [e EXCEPT !.current_floor = @ + 1]
              ELSE [e EXCEPT !.current_floor = @ - 1]
         ELSE e

\* move(), the branch of an idle car: go for the first pickup request, else
\* for a destination.
decide_idle(e) ==
    IF has_pickup_requests(e)
    THEN IF Req(e.pickup_requests[1]).floor > e.current_floor
         THEN [e EXCEPT !.current_floor = @ + 1, !.direction = UP]
         ELSE IF Req(e.pickup_requests[1]).floor < e.current_floor
              THEN [e EXCEPT !.current_floor = @ - 1, !.direction = DOWN]
              ELSE e
    ELSE IF e.destination_requests # {}
         THEN IF Max(e.destination_requests) > e.current_floor
              THEN [e EXCEPT !.current_floor = @ + 1, !.direction = UP]
              ELSE [e EXCEPT !.current_floor = @ - 1, !.direction = DOWN]
         ELSE e

\* Mutant: the car moving up looks at its destinations only.
decide_up_ignores_pickups(e) ==
    IF e.destination_requests # {} /\ Max(e.destination_requests) > e.current_floor
    THEN [e EXCEPT !.current_floor = @ + 1]
    ELSE IF e.destination_requests # {} \/ has_pickup_requests(e)
         THEN [e EXCEPT !.direction = DOWN, !.current_floor = @ - 1]
         ELSE [e EXCEPT !.direction = IDLE]

\* move(), the branch of a car moving up.
decide_up(e) ==
    IF \/ (e.destination_requests # {}
           /\ Max(e.destination_requests) > e.current_floor)
       \/ (has_pickup_requests(e)
           /\ Req(e.pickup_requests[1]).floor > e.current_floor)
    THEN [e EXCEPT !.current_floor = @ + 1]
    ELSE IF e.destination_requests # {} \/ has_pickup_requests(e)
         THEN [e EXCEPT !.direction = DOWN, !.current_floor = @ - 1]
         ELSE [e EXCEPT !.direction = IDLE]

\* move(), the branch of a car moving down.
decide_down(e) ==
    IF \/ (e.destination_requests # {}
           /\ Min(e.destination_requests) < e.current_floor)
       \/ (has_pickup_requests(e)
           /\ Req(e.pickup_requests[1]).floor < e.current_floor)
    THEN [e EXCEPT !.current_floor = @ - 1]
    ELSE IF e.destination_requests # {} \/ has_pickup_requests(e)
         THEN [e EXCEPT !.direction = UP, !.current_floor = @ + 1]
         ELSE [e EXCEPT !.direction = IDLE]

\* Mutant: "if" for each "elif", so a branch that sets the direction falls
\* into the branch of the new direction in the same tick.
decide_fallthrough(e) ==
    LET a == IF e.direction = IDLE THEN decide_idle(e) ELSE e
        b == IF a.direction = UP THEN decide_up(a) ELSE a
    IN IF b.direction = DOWN THEN decide_down(b) ELSE b

\* The if/elif/elif chain of move() on self.direction.
decide(e) ==
    IF e.direction = IDLE THEN decide_idle(e)
    ELSE IF e.direction = UP THEN decide_up(e)
    ELSE IF e.direction = DOWN THEN decide_down(e)
    ELSE e

\* "If no requests exist then become idle"
become_idle(e) ==
    IF ~has_pickup_requests(e) /\ e.destination_requests = {}
    THEN [e EXCEPT !.direction = IDLE]
    ELSE e

\* ------------------------------------------------------ ElevatorController
\* Mutant: sorted() without reverse=True, ascending release time.
RECURSIVE sorted_ascending(_, _)
sorted_ascending(inp, n) ==
    IF n = 0 THEN << >>
    ELSE LET s == sorted_ascending(inp, n - 1)
             k == Cardinality({j \in 1..Len(s) : inp[s[j]].time <= inp[n].time})
         IN SubSeq(s, 1, k) \o << n >> \o SubSeq(s, k + 1, Len(s))

\* sorted(requests, key=attrgetter("time"), reverse=True) over the first n
\* inputs: descending release time; the sort is stable and reverse=True keeps
\* the original order of equal keys.
RECURSIVE sorted_reverse(_, _)
sorted_reverse(inp, n) ==
    IF n = 0 THEN << >>
    ELSE LET s == sorted_reverse(inp, n - 1)
             k == Cardinality({j \in 1..Len(s) : inp[s[j]].time >= inp[n].time})
         IN SubSeq(s, 1, k) \o << n >> \o SubSeq(s, k + 1, Len(s))

\* Mutant: "<" for "<=", a request is released one tick late.
RECURSIVE release_late(_, _, _, _)
release_late(rq, pq, hd, t) ==
    IF Len(rq) > 0 /\ Req(rq[Len(rq)]).time < t
    THEN LET new_request == rq[Len(rq)]
         IN release_late(SubSeq(rq, 1, Len(rq) - 1), request_car(pq, new_request),
                         Append(hd, [req |-> new_request, at |-> t]), t)
    ELSE [requests |-> rq, pickup_requests |-> pq, handed |-> hd]

\* The inner while loop of run(): pop from the end while the last is due.
RECURSIVE release_due(_, _, _, _)
release_due(rq, pq, hd, t) ==
    IF Len(rq) > 0 /\ Req(rq[Len(rq)]).time <= t
    THEN LET new_request == rq[Len(rq)]
         IN release_due(SubSeq(rq, 1, Len(rq) - 1), request_car(pq, new_request),
                        Append(hd, [req |-> new_request, at |-> t]), t)
    ELSE [requests |-> rq, pickup_requests |-> pq, handed |-> hd]

\* Mutant: the loop stops as soon as every request is released.
LoopCond_requests_only == Len(requests) > 0

\* The condition of run()'s outer while loop.
LoopCond == Len(requests) > 0 \/ has_pending_requests(Car)

\* Mutant: the clock is never advanced.
advance_stuck(t) == t

\* self.time += 1
advance(t) == t + 1

\* ------------------------------------------------------------ specification
InitCar(start) ==
    /\ direction = IDLE
    /\ current_floor = start
    /\ destination_requests = {}
    /\ pickup_requests = << >>
    /\ requests = sorted_reverse(input, Len(input))
    /\ time = 0
    /\ pc = "loop"
    /\ log = << >>
    /\ served = << >>
    /\ handed = << >>
    /\ tick = LET s == [direction |-> IDLE, current_floor |-> start,
                        destination_requests |-> {}, pickup_requests |-> << >>]
              IN [pre |-> s, s1 |-> s, s2 |-> s, s3 |-> s, s4 |-> s, s5 |-> s,
                  b1 |-> {}, b4 |-> {}]

\* The bounded runs: any list of up to MaxReqs requests, any start floor.
BoundedInit ==
    /\ floors = Floors
    /\ input \in UNION {[1..n -> PickupRequest] : n \in 0..MaxReqs}
    /\ \E start \in 1..Floors : InitCar(start)

\* The run at the end of the module.
RefInit ==
    /\ floors = RefFloors
    /\ input = RefRequests
    /\ InitCar(DefaultStartingFloor)

Init == BoundedInit \/ RefInit

\* Runs on requests nobody validated: any list of up to MaxRawReqs of them.
RawInit ==
    /\ floors = Floors
    /\ input \in UNION {[1..n -> RawRequest] : n \in 0..MaxRawReqs}
    /\ \E start \in 1..Floors : InitCar(start)

\* One pass of the outer loop's head and the inner while loop.
Release ==
    /\ pc = "loop"
    /\ LoopCond
    /\ LET r == release_due(requests, pickup_requests, handed, time)
       IN /\ requests' = r.requests
          /\ pickup_requests' = r.pickup_requests
          /\ handed' = r.handed
    /\ pc' = "move"
    /\ UNCHANGED << input, floors, direction, current_floor, destination_requests,
                    time, log, served, tick >>

\* self.elevator.move(self.time); self.time += 1.  s1..s6 are the car after
\* each statement of move(), whose log collects the lines this call logs.
Move ==
    /\ pc = "move"
    /\ \E s0 \in {[Car EXCEPT !.log = << >>]} :
       \E s1 \in {pickup_at_current_floor(s0, time)} :
       \E s2 \in {drop_off_at_current_floor(s1, time)} :
       \E s3 \in {decide(s2)} :
       \E s4 \in {handle_parallel_requests(s3, time)} :
       \E s5 \in {become_idle(s4)} :
       \E s6 \in {report_state(s5, time)} :
          /\ direction' = s6.direction
          /\ current_floor' = s6.current_floor
          /\ destination_requests' = s6.destination_requests
          /\ pickup_requests' = s6.pickup_requests
          /\ log' = s6.log
          /\ served' = served \o SelectSeq(s6.log, IsService)
          /\ tick' = [pre |-> Snap(s0), s1 |-> Snap(s1), s2 |-> Snap(s2),
                      s3 |-> Snap(s3), s4 |-> Snap(s4), s5 |-> Snap(s5),
                      b1 |-> Boarded(s1.log),
                      b4 |-> Boarded(Lines(s3.log, s4.log))]
    /\ time' = advance(time)
    /\ pc' = "loop"
    /\ UNCHANGED << input, floors, requests, handed >>

\* run() returns.
Return ==
    /\ pc = "loop"
    /\ ~LoopCond
    /\ pc' = "done"
    /\ UNCHANGED << input, floors, direction, current_floor, destination_requests,
                    pickup_requests, requests, time, log, served, handed, tick >>

Next == Release \/ Move \/ Return

Spec == Init /\ [][Next]_vars

\* run() is a plain loop: whenever a step is possible it is taken.
FairSpec == Spec /\ WF_vars(Next)

\* run() on unvalidated requests.
RawSpec == RawInit /\ [][Next]_vars

\* ------------------------------------------------------------------ claims
\* The requests the last move() took out of the pickup queue.
Removed ==
    {tick.pre.pickup_requests[i] : i \in DOMAIN tick.pre.pickup_requests}
        \ {tick.s5.pickup_requests[i] : i \in DOMAIN tick.s5.pickup_requests}

\* The requests in the pickup queue when step 4 of the last move() began.
QueuedAtStep4 ==
    {tick.s3.pickup_requests[i] : i \in DOMAIN tick.s3.pickup_requests}

\* The last move() moved the car one floor, and the car has direction d.
ArrivedMoving(d) ==
    /\ time > 0
    /\ tick.s3.direction = d
    /\ tick.s3.current_floor = tick.pre.current_floor + d

\* The ticks of the lines of one kind in served.
TicksOf(kind) ==
    LET l == SelectSeq(served, LAMBDA ev : ev.kind = kind)
    IN [i \in DOMAIN l |-> l[i].time]

\* C1 (as claimed): after every tick the car is on a floor of the building,
\* 1 <= current_floor <= floors.
C1_FloorBound == 1 <= current_floor /\ current_floor <= floors

\* C2 (as claimed): every request the last move() removed from the pickup
\* queue was boarded by it (a pickup line for it, in step 1 or step 4) and its
\* destination entered destination_requests in that step.
C2_RemovedOnlyByBoarding ==
    \A id \in Removed :
        \/ id \in tick.b1 /\ Req(id).destination \in tick.s1.destination_requests
        \/ id \in tick.b4 /\ Req(id).destination \in tick.s4.destination_requests

\* C3 (as claimed): when the car arrives at a floor moving in direction d, any
\* two queued requests of that floor and direction d are both boarded in that
\* tick, and a queued request of that floor with the other direction stays in
\* the pickup queue.
C3_MultiPickup ==
    \A d \in {DOWN, UP} :
        ArrivedMoving(d) =>
            LET here == {id \in QueuedAtStep4 : Req(id).floor = tick.s3.current_floor}
                same == {id \in here : Req(id).direction = d}
            IN /\ Cardinality(same) >= 2 => same \subseteq tick.b4
               /\ \A id \in here \ same :
                     \E i \in DOMAIN tick.s5.pickup_requests :
                         tick.s5.pickup_requests[i] = id

\* C4: right after every move() (and before the first), the car is idle
\* exactly when it has neither a pickup request nor a destination.
C4_IdleIffEmpty ==
    pc # "move" =>
        (direction = IDLE <=> (pickup_requests = << >> /\ destination_requests = {}))

\* C4 witness: a move() that left a busy car idle, and empty.
C4_Witness ==
    /\ pc = "loop" /\ time > 0
    /\ tick.pre.direction # IDLE
    /\ direction = IDLE
    /\ pickup_requests = << >> /\ destination_requests = {}

\* C5 (as claimed): requests are handed to the car in non-decreasing release
\* time, and requests of equal release time in their input order.
C5_ReleaseOrder ==
    \A i, j \in DOMAIN handed :
        i < j =>
            /\ Req(handed[i].req).time <= Req(handed[j].req).time
            /\ Req(handed[i].req).time = Req(handed[j].req).time
                   => handed[i].req < handed[j].req

\* C6: run() returns: its loop condition is false after finitely many ticks.
C6_Termination == <>(pc = "done")

\* C6 witness: run() has returned after serving at least two requests over
\* more than two ticks.
C6_Witness == pc = "done" /\ time > 2 /\ Len(handed) >= 2 /\ Len(served) >= 4

\* C7 (as claimed): a boarded request's travel direction is the car's
\* direction at the moment it is boarded: before step 1 for the head, at
\* step 4 for the others.
C7_DirectionGated ==
    /\ \A id \in tick.b1 : Req(id).direction = tick.pre.direction
    /\ \A id \in tick.b4 : Req(id).direction = tick.s3.direction

\* C7 (amended): a request boarded in step 4 has the car's direction; step 1
\* boards the head at the car's floor whatever the car's direction is, and
\* leaves the car with the boarded request's direction.
C7_DirectionAfterBoarding ==
    /\ \A id \in tick.b1 : Req(id).direction = tick.s1.direction
    /\ \A id \in tick.b4 :
           Req(id).direction = tick.s3.direction /\ tick.s4.direction = tick.s3.direction

\* C7 witness: step 1 boarded a request against the car's direction, and a
\* later tick boarded one in step 4.
C7_Witness ==
    /\ tick.b4 # {}
    /\ \E i \in DOMAIN served :
           /\ served[i].kind = "Boarded"
           /\ served[i].direction \notin {IDLE, Req(served[i].req).direction}

\* C8: a request is handed to the car at the clock of its release time; the
\* pickup queue never holds a request of a later release time than the clock;
\* when move() runs the controller holds back no request that is due.
C8_ReleaseTiming ==
    /\ \A i \in DOMAIN handed : handed[i].at = Req(handed[i].req).time
    /\ \A i \in DOMAIN pickup_requests : Req(pickup_requests[i]).time <= time
    /\ pc = "move" => \A i \in DOMAIN requests : Req(requests[i]).time > time

\* C8 witness: move() is about to run at clock 1 with a request released at
\* clock 1 behind one released at clock 0, and a request still held back.
C8_Witness ==
    /\ pc = "move" /\ time = 1
    /\ \E i, j \in DOMAIN handed : handed[i].at = 0 /\ handed[j].at = 1
    /\ \E i \in DOMAIN pickup_requests : Req(pickup_requests[i]).time = 1

\* C9: the run of the module's own scenario logs pickups at ticks 5, 9, 13,
\* 20 and dropoffs at ticks 8, 15, 16, 25, ends with the state line of tick 25
\* (floor 1, Idle), and executes no tick after 25.
C9_Reference ==
    (floors = RefFloors /\ input = RefRequests) =>
        /\ time <= 26
        /\ pc = "done" =>
              /\ TicksOf("Boarded") = << 5, 9, 13, 20 >>
              /\ TicksOf("Discharged") = << 8, 15, 16, 25 >>
              /\ time = 26
              /\ log[Len(log)].kind = "State"
              /\ log[Len(log)].time = 25
              /\ log[Len(log)].floor = 1
              /\ log[Len(log)].direction = IDLE

\* C9 witness: the scenario's run() has returned.
C9_Witness == floors = RefFloors /\ input = RefRequests /\ pc = "done"

\* C10: a move() changes the floor by at most one, reversals included.
C10_StepBound ==
    [][current_floor' - current_floor \in {-1, 0, 1}]_vars

\* C10 witness: a move() that reversed the car and moved it one floor.
C10_Witness ==
    /\ time > 0
    /\ tick.s2.direction = UP /\ tick.s3.direction = DOWN
    /\ tick.s3.current_floor = tick.pre.current_floor - 1

\* A request as the specification wants it: floors in the building, a direction.
Valid(r) ==
    /\ r.floor \in 1..floors
    /\ r.destination \in 1..floors
    /\ r.direction # IDLE

\* The requests handed to request_car at the current clock, in call order.
HandedNow ==
    LET l == SelectSeq(handed, LAMBDA h : h.at = time)
    IN [i \in DOMAIN l |-> l[i].req]

At(l, kind) == {i \in DOMAIN l : l[i].kind = kind}

\* The positions in l of the pickup lines of the requests ids.
PickupAt(l, ids) == {i \in At(l, "Boarded") : l[i].req \in ids}

\* C12: a move() logs exactly one state line, as its last line, with the
\* tick's clock and the car's direction and floor at the end of the tick; the
\* clock starts at 0 and each move() advances it by one, so the state lines
\* carry 0, 1, 2, ...; the step-1 pickup line precedes the dropoff line, which
\* precedes the step-4 pickup lines, and all of them carry the tick's clock.
C12_EventOrder ==
    /\ time = 0
    /\ [][pc = "move" =>
            LET l == log'
                n == Len(l)
            IN /\ n >= 1
               /\ At(l, "State") = {n}
               /\ l[n].time = time /\ time' = time + 1
               /\ l[n].direction = direction' /\ l[n].floor = current_floor'
               /\ \A i \in DOMAIN l : l[i].time = time
               /\ \A i \in PickupAt(l, tick'.b1) : \A j \in At(l, "Discharged") : i < j
               /\ \A i \in PickupAt(l, tick'.b1) \cup At(l, "Discharged") :
                     \A j \in PickupAt(l, tick'.b4) : i < j
               /\ At(l, "Boarded") = PickupAt(l, tick'.b1) \cup PickupAt(l, tick'.b4)
         ]_vars

\* C12 witness: a tick that logged a step-1 pickup, a dropoff, a step-4
\* pickup and the state line.
C12_Witness ==
    /\ time > 0 /\ Len(log) = 4
    /\ tick.b1 # {} /\ tick.b4 # {} /\ At(log, "Discharged") # {}

\* C13 (as claimed): when run() returns, every request of the input was
\* picked up at its origin floor and a dropoff at its destination followed.
C13_AllServed ==
    pc = "done" =>
        \A id \in DOMAIN input :
            \E i \in At(served, "Boarded") :
                /\ served[i].req = id
                /\ served[i].floor = Req(id).floor
                /\ \E j \in At(served, "Discharged") :
                       j > i /\ served[j].floor = Req(id).destination

\* C14: a request boarded in step 4 is at the car's floor after step 3, has
\* the car's direction, and has the direction of the request that headed the
\* queue when step 4 began; step 4 leaves direction and floor as they were.
C14_TripleAlignment ==
    /\ tick.s4.direction = tick.s3.direction
    /\ tick.s4.current_floor = tick.s3.current_floor
    /\ \A id \in tick.b4 :
           /\ Req(id).floor = tick.s3.current_floor
           /\ Req(id).direction = tick.s3.direction
           /\ Req(id).direction = Req(tick.s3.pickup_requests[1]).direction

\* C14 witness: step 4 boarded a request that was not the head of the queue.
C14_Witness ==
    \E id \in tick.b4 : id # tick.s3.pickup_requests[1]

\* Step 3 of the last move() for a car with direction d: it goes on one floor
\* while a destination or the head pickup lies ahead, else reverses and steps
\* back if work remains, else becomes idle where it is.
Step3(d) ==
    LET a == tick.s2
        b == tick.s3
        queued == a.pickup_requests # << >>
        ahead == \/ \E f \in a.destination_requests : (f - a.current_floor) * d > 0
                 \/ queued /\ (Req(a.pickup_requests[1]).floor - a.current_floor) * d > 0
        work == a.destination_requests # {} \/ queued
    IN a.direction = d =>
          /\ ahead => b.direction = d /\ b.current_floor = a.current_floor + d
          /\ (~ahead /\ work) =>
                 b.direction = -d /\ b.current_floor = a.current_floor - d
          /\ ~work => b.direction = IDLE /\ b.current_floor = a.current_floor

\* C15: a car moving up goes on up while a destination or the head pickup is
\* above it, reverses (and steps down in the same tick) only when nothing is
\* above and work remains, and becomes idle without moving when no work
\* remains; the same holds for a car moving down.
C15_NoPrematureReversal == Step3(UP) /\ Step3(DOWN)

\* C15 witness: a car moving down with work left above only reversed and
\* stepped up.
C15_Witness ==
    /\ time > 0
    /\ tick.s2.direction = DOWN /\ tick.s3.direction = UP
    /\ tick.s3.current_floor = tick.s2.current_floor + 1
    /\ tick.s2.pickup_requests # << >> /\ tick.s2.destination_requests # {}

\* C16: a pickup line is logged with the car at the request's origin floor; a
\* dropoff line is logged with the car's floor in destination_requests, the
\* floor is out of the set after the dropoff, and only a later boarding puts a
\* floor into the set; a tick logs at most one dropoff line.
C16_RightFloor ==
    /\ \A i \in At(served, "Boarded") : served[i].floor = Req(served[i].req).floor
    /\ \A i \in At(served, "Discharged") : served[i].floor \in served[i].dests
    /\ At(log, "Discharged") # {} =>
           tick.s1.current_floor \notin tick.s2.destination_requests
    /\ \A f \in tick.s5.destination_requests \ tick.s2.destination_requests :
           \E id \in tick.b4 : Req(id).destination = f
    /\ Cardinality(At(log, "Discharged")) <= 1

\* C16 witness: a tick dropped off at a floor and its step 4 then boarded a
\* request for that very floor.
C16_Witness ==
    /\ At(log, "Discharged") # {}
    /\ tick.s1.current_floor \in tick.s5.destination_requests
    /\ tick.b4 # {}

\* C17: every floor in destination_requests is the destination of a request
\* that was boarded and has had no dropoff at that floor since; so the set
\* lies within 1..floors.
C17_Provenance ==
    /\ \A f \in destination_requests :
           \E i \in At(served, "Boarded") :
               /\ Req(served[i].req).destination = f
               /\ \A j \in At(served, "Discharged") : j > i => served[j].floor # f
    /\ destination_requests \subseteq 1..floors

\* C17 witness: two destinations are pending, one of them a floor where a
\* dropoff has already happened.
C17_Witness ==
    /\ Cardinality(destination_requests) = 2
    /\ \E j \in At(served, "Discharged") : served[j].floor \in destination_requests

\* C18: at the head of the loop, an unreleased request, a queued pickup or a
\* pending destination each make run() execute another tick; run() returns
\* only with none of them left and the car idle.
C18_StopCondition ==
    [][/\ (pc = "loop" /\ (requests # << >> \/ pickup_requests # << >>
                           \/ destination_requests # {})) => pc' = "move"
       /\ pc' = "done" =>
              /\ requests' = << >> /\ pickup_requests' = << >>
              /\ destination_requests' = {} /\ direction' = IDLE
      ]_vars

\* C18 witness: a tick ran with the car idle and nothing to do, for the sake
\* of a request not yet released, and run() is about to run another.
C18_Witness ==
    /\ pc = "move" /\ time > 0
    /\ tick.pre.direction = IDLE /\ tick.pre.pickup_requests = << >>
    /\ Len(log) = 1 /\ Len(served) = 0
    /\ pickup_requests # << >>

\* C19 (as claimed): a pickup line is logged after the request's destination
\* is in destination_requests (in step 1 also after the direction is the
\* request's), a dropoff line after the floor has left the set.
C19_EventAfterMutation ==
    /\ \A i \in At(log, "Boarded") : Req(log[i].req).destination \in log[i].dests
    /\ \A i \in PickupAt(log, tick.b1) : log[i].direction = Req(log[i].req).direction
    /\ \A i \in At(log, "Discharged") : log[i].floor \notin log[i].dests

\* C19 (amended): each line is logged before its mutation: a step-1 pickup
\* line sees the car as move() found it, the request still at the head of the
\* queue; a dropoff line sees the floor still in destination_requests; a
\* step-4 pickup line sees the request still queued and the destinations of
\* step 3 plus those of the step-4 pickups logged before it.
C19_EventBeforeMutation ==
    /\ \A i \in PickupAt(log, tick.b1) :
           /\ log[i].dests = tick.pre.destination_requests
           /\ log[i].direction = tick.pre.direction
           /\ log[i].queue = tick.pre.pickup_requests
           /\ log[i].queue[1] = log[i].req
    /\ \A i \in At(log, "Discharged") :
           /\ log[i].floor \in log[i].dests
           /\ log[i].dests = tick.s1.destination_requests
    /\ \A i \in PickupAt(log, tick.b4) :
           /\ \E k \in DOMAIN log[i].queue : log[i].queue[k] = log[i].req
           /\ log[i].dests = tick.s3.destination_requests
                 \cup {Req(log[j].req).destination :
                          j \in {k \in PickupAt(log, tick.b4) : k < i}}

\* C19 witness: a tick logged a step-1 pickup whose destination was not yet
\* in the set, a dropoff, and a step-4 pickup whose destination was not yet in
\* the set.
C19_Witness ==
    /\ At(log, "Discharged") # {}
    /\ \E i \in PickupAt(log, tick.b1) : Req(log[i].req).destination \notin log[i].dests
    /\ \E i \in PickupAt(log, tick.b4) : Req(log[i].req).destination \notin log[i].dests

====
